---- MODULE Spec2Model ----
(***************************************************************************)
(* NexveilAuth, the client of the Nexveil licence-verification protocol   *)
(* (src/index.d.ts, class NexveilAuth).  One client instance, the calls   *)
(* in flight on it, and the transport that answers them.                   *)
(*                                                                         *)
(* JavaScript strings are TLA+ strings and `+` is \o, so a message, a      *)
(* signature input or a fingerprint is the text the code builds.  Values   *)
(* that are not strings (undefined, null, a number) are the marker strings *)
(* below; object references are records, the null reference is NullRef.    *)
(***************************************************************************)
EXTENDS Naturals, Sequences, FiniteSets, TLC

VARIABLES
    this,      \* the NexveilAuth instance: its fields
    calls,     \* per call slot: idle, a verify suspended at the transport, or its
               \* settled promise while the caller holds it
    outcome    \* what has just happened and the caller (or the transport) sees: the
               \* promise that has just settled, or the request just handed to fetch

vars == <<this, calls, outcome>>

----------------------------------------------------------------------------
(* JavaScript values *)

Undefined == "<undefined>"
Null == "<null>"
NotAString == "<number 42>"
NullRef == [ref |-> "null"]

\* !v for a value that is a string, a number, undefined or null
Falsy(v) == v \in {Undefined, Null, ""}
Truthy(v) == ~Falsy(v)
TypeofString(v) == v \notin {Undefined, Null, NotAString}

\* the string a value contributes to a concatenation
ToStr(v) ==
    IF v = Undefined THEN "undefined"
    ELSE IF v = Null THEN "null"
    ELSE IF v = NotAString THEN "42"
    ELSE v

\* a || b
OrElse(a, b) == IF Truthy(a) THEN a ELSE b

\* String.prototype.includes
Includes(s, sub) ==
    \E i \in 1..(Len(s) + 1) :
        /\ i + Len(sub) - 1 <= Len(s)
        /\ SubSeq(s, i, i + Len(sub) - 1) = sub

\* new Error(message)
Error(message) == [message |-> message]

----------------------------------------------------------------------------
(* Bounds and input sets *)

\* number of verify calls that may be in flight at once
MaxCalls == 1

CallIds == 1..MaxCalls

\* number of verify calls issued, and held by the caller, in the concurrent runs
MaxInFlight == 2

Secret1 == "1111111111111111111111111111111111111111111111111111111111111111"
Secret2 == "2222222222222222222222222222222222222222222222222222222222222222"
Secret3 == "3333333333333333333333333333333333333333333333333333333333333333"

\* values crypto.randomBytes(32).toString('hex') may return
Nonces == { "aaaaaaaaaaaaaaaaaaaaaaaaaaaaaaaaaaaaaaaaaaaaaaaaaaaaaaaaaaaaaaaa",
            "bbbbbbbbbbbbbbbbbbbbbbbbbbbbbbbbbbbbbbbbbbbbbbbbbbbbbbbbbbbbbbbb" }

\* values new Date().toISOString() may return
IsoTimes == { "2026-01-12T00:00:00.000Z" }

\* arguments given to verify / verifyOrThrow
Keys == { "ABC", "", NotAString }

\* arguments given to setHWID
HwidArgs == { "HW-1", "HW-2", "", NotAString }

Codes == { "KEY_VALID", "KEY_ACTIVATED", "KEY_NOT_FOUND", "KEY_EXPIRED",
           "KEY_REVOKED", "KEY_DISABLED", "HWID_MISMATCH", "USER_BANNED",
           "PROJECT_MISMATCH", "SIGNATURE_INVALID", "TIMESTAMP_EXPIRED",
           "SERVER_ERROR" }

Statuses == { 200, 404, 500 }

StatusText(s) == IF s = 200 THEN "200" ELSE IF s = 404 THEN "404" ELSE "500"

\* Response.ok
Ok(status) == status >= 200 /\ status <= 299

----------------------------------------------------------------------------
(* sha256: the hex digest, a text that determines its input *)

sha256(data) == "sha256(" \o data \o ")"

----------------------------------------------------------------------------
(* Hardware fingerprint *)

\* code-unit order of the characters of a MAC address
MacAlphabet == "0123456789:abcdef"

CharRank(c) == CHOOSE i \in 1..Len(MacAlphabet) : SubSeq(MacAlphabet, i, i) = c

RECURSIVE StrLess(_, _)
StrLess(a, b) ==
    IF Len(b) = 0 THEN FALSE
    ELSE IF Len(a) = 0 THEN TRUE
    ELSE LET ca == CharRank(SubSeq(a, 1, 1))
             cb == CharRank(SubSeq(b, 1, 1))
         IN  IF ca # cb THEN ca < cb
             ELSE StrLess(SubSeq(a, 2, Len(a)), SubSeq(b, 2, Len(b)))

\* Array.prototype.sort on strings
RECURSIVE SortStrings(_)
SortStrings(s) ==
    IF Len(s) <= 1 THEN s
    ELSE LET m == CHOOSE i \in 1..Len(s) : \A j \in 1..Len(s) : ~StrLess(s[j], s[i])
             rest == SubSeq(s, 1, m - 1) \o SubSeq(s, m + 1, Len(s))
         IN  <<s[m]>> \o SortStrings(rest)

\* Array.prototype.join
RECURSIVE Join(_, _)
Join(s, sep) ==
    IF Len(s) = 0 THEN ""
    ELSE IF Len(s) = 1 THEN s[1]
    ELSE s[1] \o sep \o Join(Tail(s), sep)

ZeroMac == "00:00:00:00:00:00"

PlatformIdFails == "<execSync throws>"

\* what the os module and the platform lookup answer when probed
Probes ==
    { [ osFails |-> FALSE, cpus |-> <<"cpu-x">>, hostname |-> "host", platform |-> "linux",
        arch |-> "x64", macs |-> <<"0a:00:00:00:00:02", ZeroMac, "02:00:00:00:00:01">>,
        platformId |-> pid ] : pid \in { "machine-id-1", PlatformIdFails } }
    \cup { [ osFails |-> TRUE ] }

SelectMacs(macs) == SelectSeq(macs, LAMBDA m : Truthy(m) /\ m # ZeroMac)

Components(probe) ==
    (IF Len(probe.cpus) > 0 THEN <<probe.cpus[1]>> ELSE <<>>)
    \o <<probe.hostname, probe.platform, probe.arch>>
    \o SortStrings(SelectMacs(probe.macs))
    \o (IF probe.platformId = PlatformIdFails THEN <<>> ELSE <<probe.platformId>>)

\* a call's result: the value returned or the error thrown, and the instance afterwards
Returned(v, t) == [threw |-> FALSE, value |-> v, this |-> t]
Threw(e, t) == [threw |-> TRUE, error |-> e, this |-> t]

\* as generateHWID, with a failed platform lookup aborting the derivation
generateHWIDStrict(t, probe) ==
    IF Truthy(t.customHWID) THEN Returned(t.customHWID, t)
    ELSE IF Truthy(t._hwid) THEN Returned(t._hwid, t)
    ELSE IF probe.osFails \/ probe.platformId = PlatformIdFails
         THEN Threw(Error("Nexveil: Failed to generate HWID: " \o "os failure"), t)
    ELSE LET hwid == sha256(Join(Components(probe), "||"))
         IN  Returned(hwid, [t EXCEPT !._hwid = hwid])

\* as generateHWID, deriving the fingerprint anew on every call
generateHWIDNoMemo(t, probe) ==
    IF Truthy(t.customHWID) THEN Returned(t.customHWID, t)
    ELSE IF probe.osFails
         THEN Threw(Error("Nexveil: Failed to generate HWID: " \o "os failure"), t)
    ELSE LET hwid == sha256(Join(Components(probe), "||"))
         IN  Returned(hwid, [t EXCEPT !._hwid = hwid])

generateHWID(t, probe) ==
    IF Truthy(t.customHWID) THEN Returned(t.customHWID, t)
    ELSE IF Truthy(t._hwid) THEN Returned(t._hwid, t)
    ELSE IF probe.osFails
         THEN Threw(Error("Nexveil: Failed to generate HWID: " \o "os failure"), t)
    ELSE LET hwid == sha256(Join(Components(probe), "||"))
         IN  Returned(hwid, [t EXCEPT !._hwid = hwid])

\* as getHWID, with the custom fingerprint consulted by generateHWID only
getHWIDAutoOnly(t, probe) ==
    IF t.autoHWID THEN generateHWID(t, probe)
    ELSE Threw(Error("Nexveil: HWID not set. Enable autoHWID or provide customHWID"), t)

getHWID(t, probe) ==
    IF t.autoHWID THEN generateHWID(t, probe)
    ELSE IF Truthy(t.customHWID) THEN Returned(t.customHWID, t)
    ELSE Threw(Error("Nexveil: HWID not set. Enable autoHWID or provide customHWID"), t)

\* as setHWID, with the cached verification dropped when the fingerprint is replaced
setHWIDClearsCache(t, hwid) ==
    IF Falsy(hwid) \/ ~TypeofString(hwid)
    THEN Threw(Error("Nexveil: HWID must be a non-empty string"), t)
    ELSE Returned(Undefined, [t EXCEPT !.customHWID = hwid, !._hwid = hwid,
                                       !._lastVerification = [ref |-> "null"]])

\* as setHWID, memoizing the value without making it the custom fingerprint
setHWIDMemoOnly(t, hwid) ==
    IF Falsy(hwid) \/ ~TypeofString(hwid)
    THEN Threw(Error("Nexveil: HWID must be a non-empty string"), t)
    ELSE Returned(Undefined, [t EXCEPT !._hwid = hwid])

\* as setHWID, with an invalid value resetting the fingerprint
setHWIDResets(t, hwid) ==
    IF Falsy(hwid) \/ ~TypeofString(hwid)
    THEN Threw(Error("Nexveil: HWID must be a non-empty string"),
               [t EXCEPT !.customHWID = Null, !._hwid = Null])
    ELSE Returned(Undefined, [t EXCEPT !.customHWID = hwid, !._hwid = hwid])

setHWID(t, hwid) ==
    IF Falsy(hwid) \/ ~TypeofString(hwid)
    THEN Threw(Error("Nexveil: HWID must be a non-empty string"), t)
    ELSE Returned(Undefined, [t EXCEPT !.customHWID = hwid, !._hwid = hwid])

----------------------------------------------------------------------------
(* Construction *)

JsFalse == "<false>"
JsTrue == "<true>"

DefaultApiUrl == "https://api.nexveil.net"

\* the configurations instances are constructed from
Configs ==
    { [ appName |-> "Test", secret1 |-> Secret1, secret2 |-> Secret2, secret3 |-> Secret3,
        apiUrl |-> Undefined, autoHWID |-> a, customHWID |-> h, strictSSL |-> Undefined ] :
      a \in { Undefined, JsFalse }, h \in { Undefined, "HW-1" } }

\* as constructor, with autoHWID enabled only on request
constructorOptIn(config) ==
    [ appName |-> config.appName,
      secret1 |-> config.secret1,
      secret2 |-> config.secret2,
      secret3 |-> config.secret3,
      apiUrl |-> OrElse(config.apiUrl, DefaultApiUrl),
      autoHWID |-> (config.autoHWID = JsTrue),
      customHWID |-> OrElse(config.customHWID, Null),
      strictSSL |-> (config.strictSSL # JsFalse),
      _hwid |-> Null,
      _lastVerification |-> NullRef ]

constructor(config) ==
    [ appName |-> config.appName,
      secret1 |-> config.secret1,
      secret2 |-> config.secret2,
      secret3 |-> config.secret3,
      apiUrl |-> OrElse(config.apiUrl, DefaultApiUrl),
      autoHWID |-> (config.autoHWID # JsFalse),
      customHWID |-> OrElse(config.customHWID, Null),
      strictSSL |-> (config.strictSSL # JsFalse),
      _hwid |-> Null,
      _lastVerification |-> NullRef ]

NoConfig == [absent |-> TRUE]

\* the length the secrets must have
SecretLength == 64

Symbols64 == "!@#$%^&*()_+-=[]{}|;:',.<>/?~ !@#$%^&*()_+-=[]{}|;:',.<>/?~ !@#$"

\* values given for a secret: none, empty, 63, 64 and 65 characters
SecretArgs(secret) ==
    { Undefined, "", SubSeq(secret, 2, Len(secret)), secret, Symbols64, secret \o "0" }

\* the arguments given to new NexveilAuth(config)
ConstructArgs ==
    { NoConfig } \cup
    { [ appName |-> n, secret1 |-> s1, secret2 |-> s2, secret3 |-> s3,
        apiUrl |-> u, autoHWID |-> a, customHWID |-> h, strictSSL |-> l ] :
      n \in { Undefined, "", "Test", NotAString },
      s1 \in SecretArgs(Secret1), s2 \in SecretArgs(Secret2), s3 \in SecretArgs(Secret3),
      u \in { Undefined, "", "http://localhost:4000" },
      a \in { Undefined, Null, JsTrue, JsFalse },
      h \in { Undefined, "", "HW-1" },
      l \in { Undefined, JsTrue, JsFalse } }

\* as RequiredFields, with the secrets looked at before the name
RequiredFieldsSecretsFirst == << "secret1", "secret2", "secret3", "appName" >>

RequiredFields == << "appName", "secret1", "secret2", "secret3" >>

SecretFields == << "secret1", "secret2", "secret3" >>

\* the first element of a sequence of field names that is among the bad ones
FirstField(fields, bad) ==
    fields[CHOOSE i \in DOMAIN fields :
              fields[i] \in bad /\ \A j \in DOMAIN fields : fields[j] \in bad => i <= j]

\* as SecretRegexTest, with the pattern not anchored at its end
SecretRegexTestOpenEnd(v) == Len(ToStr(v)) >= SecretLength

\* /^.{64}$/s.test(v)
SecretRegexTest(v) == Len(ToStr(v)) = SecretLength

validateConfig(config) ==
    IF config = NoConfig
    THEN Threw(Error("nexveil: Configuration object is required"), NullRef)
    ELSE IF \E i \in DOMAIN RequiredFields : Falsy(config[RequiredFields[i]])
    THEN Threw(Error("nexveil: Missing required field: "
                     \o FirstField(RequiredFields, { f \in DOMAIN config : Falsy(config[f]) })), NullRef)
    ELSE IF \E i \in DOMAIN SecretFields : ~SecretRegexTest(config[SecretFields[i]])
    THEN Threw(Error("nexveil: "
                     \o FirstField(SecretFields,
                                   { f \in DOMAIN config : ~SecretRegexTest(config[f]) })
                     \o " must be exactly 64 characters"), NullRef)
    ELSE IF ~TypeofString(config.appName) \/ Len(config.appName) = 0
    THEN Threw(Error("nexveil: appName must be a non-empty string"), NullRef)
    ELSE Returned(Undefined, NullRef)

\* new NexveilAuth(config): the new instance, or the error thrown
NewNexveilAuth(config) ==
    LET v == validateConfig(config)
    IN  IF v.threw THEN v ELSE Returned(constructor(config), NullRef)

----------------------------------------------------------------------------
(* The transport's answers *)

\* the body a response carries: not JSON, the JSON null, or a JSON object
BodyNotJson == [json |-> "invalid"]
BodyNull == [json |-> "null"]

\* the message and data fields a response carries: an empty message and no data, or both
Contents == { [message |-> "", data |-> Undefined],
              [message |-> "Success", data |-> "<data object>"] }

\* signature fields a response to a request with nonce n may carry for code c: none,
\* the empty text, and digests over each nonce (the request's own or another's), over
\* another secret, and over another code
Signatures(n, c) ==
    { Undefined, "" }
    \cup { sha256(m \o Secret3 \o ToStr(c)) : m \in Nonces }
    \cup { sha256(n \o Secret1 \o ToStr(c)) }
    \cup { sha256(n \o Secret3 \o ToStr(d)) : d \in { "KEY_VALID", "KEY_NOT_FOUND" } }

Bodies(n) ==
    { BodyNotJson, BodyNull }
    \cup UNION { { [json |-> "object", code |-> c, message |-> x.message,
                     signature |-> s, data |-> x.data] :
                   s \in Signatures(n, c), x \in Contents } :
                 c \in Codes \cup { Undefined } }

FetchRejects == [kind |-> "rejects", message |-> "fetch failed"]
NoResponse == [kind |-> "none"]

Responses(n) ==
    { FetchRejects }
    \cup { [kind |-> "response", status |-> st, body |-> b] : st \in Statuses, b \in Bodies(n) }

----------------------------------------------------------------------------
(* verify *)

\* encodeURIComponent on the characters keys and application names are made of
EncodeChar(c) ==
    IF c = "&" THEN "%26"
    ELSE IF c = " " THEN "%20"
    ELSE IF c = "=" THEN "%3D"
    ELSE IF c = "%" THEN "%25"
    ELSE c

RECURSIVE encodeURIComponent(_)
encodeURIComponent(s) ==
    IF Len(s) = 0 THEN ""
    ELSE EncodeChar(SubSeq(s, 1, 1)) \o encodeURIComponent(SubSeq(s, 2, Len(s)))

\* values Date.now().toString() may return
ClockTimes == { "1768176000000", "1768176000001" }

\* the catch clause of verify
CatchVerify(error) ==
    IF Includes(error.message, "nexveil:") THEN error
    ELSE Error("nexveil: Verification failed - " \o error.message)

\* as ClientSignature, with the secrets ahead of the key
ClientSignatureSecretsFirst(t, key, clientNonce, clientTime, clientHWID) ==
    sha256(clientNonce \o t.secret1 \o t.secret2 \o key \o clientTime \o t.secret3 \o clientHWID)

ClientSignature(t, key, clientNonce, clientTime, clientHWID) ==
    sha256(clientNonce \o t.secret1 \o key \o t.secret2 \o clientTime \o t.secret3 \o clientHWID)

\* as Request, with the clienthwid header taken from the memoized fingerprint
RequestMemoHeader(t, key, clientNonce, clientTime, clientHWID) ==
    LET url == t.apiUrl \o "/wlv1/application/auth?key=" \o encodeURIComponent(key)
                        \o "&app_name=" \o encodeURIComponent(t.appName)
    IN  [ url |-> url,
          method |-> "GET",
          clienttime |-> clientTime,
          externalsignature |-> ClientSignature(t, key, clientNonce, clientTime, clientHWID),
          clientnonce |-> clientNonce,
          clienthwid |-> t._hwid,
          agentNull |-> (~t.strictSSL /\ Includes(url, "localhost")) ]

Request(t, key, clientNonce, clientTime, clientHWID) ==
    LET url == t.apiUrl \o "/wlv1/application/auth?key=" \o encodeURIComponent(key)
                        \o "&app_name=" \o encodeURIComponent(t.appName)
    IN  [ url |-> url,
          method |-> "GET",
          clienttime |-> clientTime,
          externalsignature |-> ClientSignature(t, key, clientNonce, clientTime, clientHWID),
          clientnonce |-> clientNonce,
          clienthwid |-> clientHWID,
          agentNull |-> (~t.strictSSL /\ Includes(url, "localhost")) ]

\* verify up to the call of fetch: either it has thrown, or it hands a request to the
\* transport and suspends, keeping clientNonce for its continuation
Suspended(req, clientNonce, t) ==
    [threw |-> FALSE, suspended |-> TRUE, request |-> req, clientNonce |-> clientNonce, this |-> t]

\* as verifyStart, with the fingerprint obtained before the key is validated
verifyStartHwidFirst(t, key, probe, clientNonce, clientTime) ==
    LET h == getHWID(t, probe)
    IN  IF Falsy(key) \/ ~TypeofString(key)
        THEN Threw(Error("Nexveil: License key must be a non-empty string"), h.this)
        ELSE IF h.threw THEN Threw(CatchVerify(h.error), h.this)
        ELSE Suspended(Request(h.this, key, clientNonce, clientTime, h.value),
                       clientNonce, h.this)

verifyStart(t, key, probe, clientNonce, clientTime) ==
    IF Falsy(key) \/ ~TypeofString(key)
    THEN Threw(Error("Nexveil: License key must be a non-empty string"), t)
    ELSE LET h == getHWID(t, probe)
         IN  IF h.threw THEN Threw(CatchVerify(h.error), h.this)
             ELSE Suspended(Request(h.this, key, clientNonce, clientTime, h.value),
                            clientNonce, h.this)

ExpectedServerSignature(t, clientNonce, data) ==
    sha256(clientNonce \o t.secret3 \o ToStr(data.code))

\* as SignatureRejected, with a digest over any nonce accepted
SignatureRejectedAnyNonce(t, clientNonce, data) ==
    /\ Truthy(data.signature)
    /\ \A m \in Nonces : data.signature # sha256(m \o t.secret3 \o ToStr(data.code))

\* as SignatureRejected, with a missing signature rejected too
SignatureRejectedWhenMissing(t, clientNonce, data) ==
    \/ Falsy(data.signature)
    \/ data.signature # sha256(clientNonce \o t.secret3 \o ToStr(data.code))

\* as SignatureRejected, with the expected digest taken over secret1
SignatureRejectedOverSecret1(t, clientNonce, data) ==
    /\ Truthy(data.signature)
    /\ data.signature # sha256(clientNonce \o t.secret1 \o ToStr(data.code))

SignatureRejected(t, clientNonce, data) ==
    /\ Truthy(data.signature)
    /\ data.signature # ExpectedServerSignature(t, clientNonce, data)

\* as Result, with the code taken as it comes
ResultKeepsCode(data, timestamp, ref) ==
    [ success |-> FALSE,
      code |-> data.code,
      message |-> OrElse(data.message, "Unknown error occurred"),
      signature |-> OrElse(data.signature, Null),
      data |-> OrElse(data.data, Null),
      isActivated |-> (data.code = "KEY_ACTIVATED"),
      isValid |-> (data.code = "KEY_VALID" \/ data.code = "KEY_ACTIVATED"),
      timestamp |-> timestamp,
      ref |-> ref ]

\* as Result, with KEY_ACTIVATED not counted as valid
ResultValidOnly(data, timestamp, ref) ==
    [ success |-> FALSE,
      code |-> OrElse(data.code, "UNKNOWN_ERROR"),
      message |-> OrElse(data.message, "Unknown error occurred"),
      signature |-> OrElse(data.signature, Null),
      data |-> OrElse(data.data, Null),
      isActivated |-> (data.code = "KEY_ACTIVATED"),
      isValid |-> (data.code = "KEY_VALID"),
      timestamp |-> timestamp,
      ref |-> ref ]

Result(data, timestamp, ref) ==
    [ success |-> FALSE,
      code |-> OrElse(data.code, "UNKNOWN_ERROR"),
      message |-> OrElse(data.message, "Unknown error occurred"),
      signature |-> OrElse(data.signature, Null),
      data |-> OrElse(data.data, Null),
      isActivated |-> (data.code = "KEY_ACTIVATED"),
      isValid |-> (data.code = "KEY_VALID" \/ data.code = "KEY_ACTIVATED"),
      timestamp |-> timestamp,
      ref |-> ref ]

\* as ProcessResult, caching a valid result only while the cache is empty
ProcessResultKeepsFirst(t, result) ==
    IF result.isValid
    THEN LET r == [result EXCEPT !.success = TRUE]
         IN  Returned(r, IF t._lastVerification = NullRef
                         THEN [t EXCEPT !._lastVerification = r] ELSE t)
    ELSE Returned(result, t)

\* as ProcessResult, caching the result whether it is valid or not
ProcessResultCachesAll(t, result) ==
    LET r == IF result.isValid THEN [result EXCEPT !.success = TRUE] ELSE result
    IN  Returned(r, [t EXCEPT !._lastVerification = r])

\* the step that marks a valid result successful and caches it, and returns the result
ProcessResult(t, result) ==
    IF result.isValid
    THEN LET r == [result EXCEPT !.success = TRUE]
         IN  Returned(r, [t EXCEPT !._lastVerification = r])
    ELSE Returned(result, t)

\* as ServerFailed, with 500 itself let through
ServerFailedAbove500(response) == ~Ok(response.status) /\ response.status > 500

\* the test for a server error
ServerFailed(response) == ~Ok(response.status) /\ response.status >= 500

\* verify from the answer of fetch to its return; ref identifies the result object
verifyResume(t, clientNonce, response, timestamp, ref) ==
    IF response.kind = "rejects"
    THEN Threw(CatchVerify(Error(response.message)), t)
    ELSE IF ServerFailed(response)
    THEN Threw(CatchVerify(Error("nexveil: Server error (" \o StatusText(response.status) \o ")")), t)
    ELSE IF response.body.json = "invalid"
    THEN Threw(CatchVerify(Error("Unexpected token < in JSON at position 0")), t)
    ELSE IF response.body.json = "null"
    THEN Threw(CatchVerify(Error("Cannot read properties of null (reading 'signature')")), t)
    ELSE IF SignatureRejected(t, clientNonce, response.body)
    THEN Threw(CatchVerify(Error("nexveil: Server signature verification failed - response may be tampered")), t)
    ELSE ProcessResult(t, Result(response.body, timestamp, ref))

\* what a settled call hands to its caller: the value returned or the error thrown
Settled(r) ==
    IF r.threw THEN [threw |-> TRUE, error |-> r.error]
    ELSE [threw |-> FALSE, value |-> r.value]

\* as verifyOrThrow, handing on whatever verify settled with
verifyOrThrowPasses(awaited) == awaited

\* verifyOrThrow after its await of verify
verifyOrThrow(awaited) ==
    IF awaited.threw THEN awaited
    ELSE IF ~awaited.value.success
    THEN [threw |-> TRUE,
          error |-> Error("nexveil: " \o awaited.value.code \o " - " \o awaited.value.message)]
    ELSE awaited

----------------------------------------------------------------------------
(* The cache *)

JsNull == [type |-> "null"]
JsBoolean(b) == [type |-> "boolean", bool |-> b]

getLastVerification(t) == Returned(t._lastVerification, t)

\* a && b: a when a is falsy, else b
isAuthenticated(t) ==
    IF t._lastVerification = NullRef THEN Returned(JsNull, t)
    ELSE Returned(JsBoolean(t._lastVerification.success), t)

\* as clearCache, leaving the cached result in place
clearCacheKeeps(t) == Returned(Undefined, t)

clearCache(t) == Returned(Undefined, [t EXCEPT !._lastVerification = NullRef])

----------------------------------------------------------------------------
(* The state machine *)

Idle == [pc |-> "idle"]
NoOutcome == [op |-> "none"]

\* a verify suspended at fetch keeps its key and its nonce; cleared records whether
\* the cache has been seen cleared since the call was issued
Pending(key, clientNonce) ==
    [pc |-> "fetch", key |-> key, clientNonce |-> clientNonce, cleared |-> FALSE]

\* the same, together with the request that the transport holds for it
Held(key, clientNonce, request) ==
    [ pc |-> "fetch", key |-> key, clientNonce |-> clientNonce,
      request |-> request, cleared |-> FALSE ]

\* the promise of the call issued, when verify has run to its end
Done(issued, settled) == [pc |-> "done", settled |-> settled, cleared |-> issued.cleared]

\* as AsyncMethods, with verify an ordinary method
AsyncMethodsWithoutVerify == { "verifyOrThrow" }

\* the methods declared async: what they return or throw settles a promise
AsyncMethods == { "verify", "verifyOrThrow" }

\* the call of fetch: the request handed to the transport by call c
Sent(key, c, clientNonce, request) ==
    [ op |-> "fetch", arg |-> key, call |-> c, clientNonce |-> clientNonce,
      response |-> NoResponse, settled |-> NullRef, awaited |-> NullRef,
      request |-> request ]

Outcome(op, arg, call, clientNonce, response, settled) ==
    [ op |-> op, arg |-> arg, call |-> call, clientNonce |-> clientNonce,
      response |-> response, settled |-> settled, awaited |-> NullRef,
      promise |-> (op \in AsyncMethods) ]

\* a synchronous method call: the instance changes and the caller gets the result
Call(op, arg, r) ==
    /\ outcome = NoOutcome
    /\ this' = r.this
    /\ outcome' = Outcome(op, arg, 0, Null, NoResponse, Settled(r))
    /\ UNCHANGED calls

FreeCall ==
    CHOOSE c \in DOMAIN calls : calls[c] = Idle /\ \A d \in DOMAIN calls : calls[d] = Idle => c <= d

Init ==
    /\ \E config \in Configs : this = constructor(config)
    /\ calls = [c \in CallIds |-> Idle]
    /\ outcome = NoOutcome

\* verify(key) is called: it throws, or sends its request and suspends at fetch;
\* held says whether the call slot shows the request that the transport holds
VerifyCalled(key, held) ==
    /\ outcome = NoOutcome
    /\ \E probe \in Probes, clientNonce \in Nonces, clientTime \in ClockTimes :
         LET r == verifyStart(this, key, probe, clientNonce, clientTime)
         IN  /\ this' = r.this
             /\ IF r.threw
                THEN /\ outcome' = Outcome("verify", key, 0, Null, NoResponse, Settled(r))
                     /\ UNCHANGED calls
                ELSE /\ \E c \in DOMAIN calls : calls[c] = Idle
                     /\ calls' = [calls EXCEPT ![FreeCall] =
                                     IF held THEN Held(key, r.clientNonce, r.request)
                                     ELSE Pending(key, r.clientNonce)]
                     /\ outcome' = Sent(key, FreeCall, r.clientNonce, r.request)

Verify(key) == VerifyCalled(key, FALSE)

VerifySending(key) == VerifyCalled(key, TRUE)

\* the transport settles the fetch of call c, and verify runs to its end.  The two
\* awaits of verify (fetch, response.json) are one step: between them verify reads
\* and writes nothing of the instance.
TransportAnswers(c, response) ==
    /\ outcome = NoOutcome
    /\ calls[c].pc = "fetch"
    /\ \E timestamp \in IsoTimes :
         LET r == verifyResume(this, calls[c].clientNonce, response, timestamp, c)
         IN  /\ this' = r.this
             /\ outcome' = Outcome("verify", calls[c].key, c, calls[c].clientNonce,
                                   response, Settled(r))
             /\ calls' = [calls EXCEPT ![c] = Done(calls[c], Settled(r))]

\* the settled verify was awaited by verifyOrThrow, which now runs to its end
VerifyOrThrowContinues ==
    /\ outcome # NoOutcome
    /\ outcome.op = "verify"
    /\ outcome' = [outcome EXCEPT !.op = "verifyOrThrow",
                                  !.awaited = outcome.settled,
                                  !.settled = verifyOrThrow(outcome.settled)]
    /\ UNCHANGED <<this, calls>>

\* the caller takes the result and drops the promise, if any
CallerContinues ==
    /\ outcome # NoOutcome
    /\ outcome' = NoOutcome
    /\ calls' = [c \in DOMAIN calls |-> IF calls[c].pc = "done" THEN Idle ELSE calls[c]]
    /\ UNCHANGED this

\* the caller takes the result and keeps the promise
CallerKeepsPromise ==
    /\ outcome # NoOutcome
    /\ outcome' = NoOutcome
    /\ UNCHANGED <<this, calls>>

GetHWID == \E probe \in Probes : Call("getHWID", Undefined, getHWID(this, probe))

GenerateHWID == \E probe \in Probes : Call("generateHWID", Undefined, generateHWID(this, probe))

SetHWID(hwid) == Call("setHWID", hwid, setHWID(this, hwid))

GetLastVerification == Call("getLastVerification", Undefined, getLastVerification(this))

IsAuthenticated == Call("isAuthenticated", Undefined, isAuthenticated(this))

ClearCache == Call("clearCache", Undefined, clearCache(this))

\* as ClearCacheInFlight, with the calls in flight cancelled
ClearCacheCancels ==
    /\ outcome = NoOutcome
    /\ this' = clearCache(this).this
    /\ outcome' = Outcome("clearCache", Undefined, 0, Null, NoResponse,
                          Settled(clearCache(this)))
    /\ calls' = [c \in DOMAIN calls |-> IF calls[c].pc = "fetch" THEN Idle ELSE calls[c]]

\* clearCache(), observed: the calls in flight are marked as having seen the cache
\* cleared
ClearCacheInFlight ==
    /\ outcome = NoOutcome
    /\ this' = clearCache(this).this
    /\ outcome' = Outcome("clearCache", Undefined, 0, Null, NoResponse,
                          Settled(clearCache(this)))
    /\ calls' = [c \in DOMAIN calls |->
                   IF calls[c].pc = "fetch" THEN [calls[c] EXCEPT !.cleared = TRUE]
                   ELSE calls[c]]

\* the transport answers one of the calls in flight, with any of its answers
Transport ==
    \E c \in DOMAIN calls :
        /\ outcome = NoOutcome
        /\ calls[c].pc = "fetch"
        /\ \E response \in Responses(calls[c].clientNonce) : TransportAnswers(c, response)

Next ==
    \/ \E key \in Keys : Verify(key)
    \/ Transport
    \/ VerifyOrThrowContinues
    \/ CallerContinues
    \/ GetHWID
    \/ GenerateHWID
    \/ \E hwid \in HwidArgs : SetHWID(hwid)
    \/ GetLastVerification
    \/ IsAuthenticated
    \/ ClearCache

Spec == Init /\ [][Next]_vars

----------------------------------------------------------------------------
(* Concurrent verify calls, whose promises the caller keeps *)

\* the answers the transport gives in the concurrent runs: fetch rejects, a server
\* error, and the codes KEY_VALID, KEY_ACTIVATED and KEY_EXPIRED signed correctly or
\* over the wrong secret
FewResponses(n) ==
    { FetchRejects, [kind |-> "response", status |-> 500, body |-> BodyNull] }
    \cup { [ kind |-> "response", status |-> 200,
             body |-> [ json |-> "object", code |-> c, message |-> "Success",
                        signature |-> sha256(n \o secret \o c), data |-> "<data object>" ] ] :
           c \in { "KEY_VALID", "KEY_ACTIVATED", "KEY_EXPIRED" },
           secret \in { Secret3, Secret1 } }

\* answers that are valid for a request with another nonce: KEY_VALID signed over
\* that nonce
ReplayedResponses(n) ==
    { [ kind |-> "response", status |-> 200,
        body |-> [ json |-> "object", code |-> "KEY_VALID", message |-> "Success",
                   signature |-> sha256(m \o Secret3 \o "KEY_VALID"),
                   data |-> "<data object>" ] ] : m \in Nonces \ { n } }

InitConcurrent ==
    /\ \E config \in Configs : this = constructor(config)
    /\ calls = [c \in 1..MaxInFlight |-> Idle]
    /\ outcome = NoOutcome

TransportFew ==
    \E c \in DOMAIN calls :
        /\ outcome = NoOutcome
        /\ calls[c].pc = "fetch"
        /\ \E response \in FewResponses(calls[c].clientNonce) : TransportAnswers(c, response)

\* the transport answers a call in flight with the answer to another request
TransportReplays ==
    \E c \in DOMAIN calls :
        /\ outcome = NoOutcome
        /\ calls[c].pc = "fetch"
        /\ \E response \in ReplayedResponses(calls[c].clientNonce) :
             TransportAnswers(c, response)

NextConcurrent ==
    \/ \E key \in Keys : Verify(key)
    \/ TransportFew
    \/ TransportReplays
    \/ CallerKeepsPromise
    \/ ClearCacheInFlight

SpecConcurrent == InitConcurrent /\ [][NextConcurrent]_vars

----------------------------------------------------------------------------
(* The fingerprint methods and verify, with the transport giving few answers *)

\* arguments given to verify in these runs: a second key, with a character that
\* the query string escapes
HwidKeys == Keys \cup { "A&B" }

NextHwid ==
    \/ \E key \in HwidKeys : VerifySending(key)
    \/ TransportFew
    \/ CallerContinues
    \/ GetHWID
    \/ GenerateHWID
    \/ \E hwid \in HwidArgs : SetHWID(hwid)
    \/ IsAuthenticated
    \/ ClearCache

SpecHwid == Init /\ [][NextHwid]_vars

----------------------------------------------------------------------------
(* Construction, from any configuration *)

InitConstruct ==
    /\ this = NullRef
    /\ calls = << >>
    /\ outcome = NoOutcome

\* new NexveilAuth(config) is evaluated, for any configuration
Construct ==
    /\ outcome = NoOutcome
    /\ this = NullRef
    /\ \E config \in ConstructArgs :
         LET r == NewNexveilAuth(config)
         IN  /\ this' = IF r.threw THEN this ELSE r.value
             /\ outcome' = Outcome("new", config, 0, Null, NoResponse, Settled(r))
    /\ UNCHANGED calls

NextConstruct ==
    \/ Construct
    \/ CallerContinues

SpecConstruct == InitConstruct /\ [][NextConstruct]_vars

----------------------------------------------------------------------------
(* Vocabulary of the properties *)

Cache == this._lastVerification

InvalidKeyMessage == "Nexveil: License key must be a non-empty string"
SignatureErrorMessage == "nexveil: Server signature verification failed - response may be tampered"
ServerErrorMessages == { "nexveil: Server error (" \o StatusText(st) \o ")" : st \in Statuses }

\* SHA256(nonce || secret3 || code), from the protocol's description
ProtocolSignature(nonce, code) == sha256(nonce \o Secret3 \o ToStr(code))

\* the step is the end of a verify call: it settles in the step
VerifySettles == outcome.op = "none" /\ outcome'.op = "verify"

\* the verify call that has just settled read a response body
ReadBody(o) ==
    /\ o.op = "verify"
    /\ o.response.kind = "response"
    /\ o.response.status < 500
    /\ o.response.body.json = "object"

Fulfilled(o) == o.op \in { "verify", "verifyOrThrow" } /\ ~o.settled.threw
Succeeded(o) == Fulfilled(o) /\ o.settled.value.success
RejectedWith(o, message) == o.settled.threw /\ o.settled.error.message = message

----------------------------------------------------------------------------
(* C1: a verify call whose response body carries a non-empty signature that differs  *)
(* from SHA256(nonce of that call || secret3 || code) rejects with the                *)
(* signature-verification error, whatever the code, returns no result, and leaves     *)
(* the cached verification as it was.                                                 *)

C1_Mismatch(o) ==
    /\ ReadBody(o)
    /\ o.response.body.signature \notin { Undefined, "" }
    /\ o.response.body.signature # ProtocolSignature(o.clientNonce, o.response.body.code)

C1_SignatureMismatchRejects ==
    [][ (VerifySettles /\ C1_Mismatch(outcome'))
        => /\ RejectedWith(outcome', SignatureErrorMessage)
           /\ Cache' = Cache ]_vars

\* a KEY_VALID response signed with another secret is rejected over a filled cache
C1_Witness ==
    /\ C1_Mismatch(outcome)
    /\ outcome.response.body.code = "KEY_VALID"
    /\ RejectedWith(outcome, SignatureErrorMessage)
    /\ Cache # NullRef

----------------------------------------------------------------------------
(* C2: verify resolves with success = true only if the response's signature field     *)
(* equals SHA256(nonce || secret3 || code); a response whose signature is wrong,      *)
(* empty or missing makes verify fail with the signature-verification error.          *)

C2_SuccessOnlyIfSigned ==
    (outcome.op = "verify" /\ outcome.response.kind = "response" /\ Succeeded(outcome))
    => outcome.response.body.signature
         = ProtocolSignature(outcome.clientNonce, outcome.response.body.code)

----------------------------------------------------------------------------
(* C3: for a response that passes the signature step, the result has                  *)
(* isActivated = (code = KEY_ACTIVATED), isValid = (code is KEY_VALID or              *)
(* KEY_ACTIVATED) and success = isValid; every other code gives success = false and   *)
(* has its code and message surfaced verbatim.                                        *)

C3_Classified(o) ==
    LET result == o.settled.value
        body == o.response.body
    IN  /\ result.isActivated = (body.code = "KEY_ACTIVATED")
        /\ result.isValid = (body.code \in { "KEY_VALID", "KEY_ACTIVATED" })
        /\ result.success = result.isValid

FailureCodes == Codes \ { "KEY_VALID", "KEY_ACTIVATED" }

\* the claim as stated, for the signed responses: the message is the response's
\* message in every case
C3_AsStated ==
    (/\ outcome.op = "verify"
     /\ Fulfilled(outcome)
     /\ outcome.response.body.signature
          = ProtocolSignature(outcome.clientNonce, outcome.response.body.code))
    => /\ C3_Classified(outcome)
       /\ outcome.response.body.code \in FailureCodes
          => /\ outcome.settled.value.code = outcome.response.body.code
             /\ outcome.settled.value.message = outcome.response.body.message

\* as amended: the message is surfaced verbatim when it is not empty, and is
\* "Unknown error occurred" when the response's message is empty or absent
C3_Classification ==
    (outcome.op = "verify" /\ Fulfilled(outcome))
    => /\ C3_Classified(outcome)
       /\ outcome.response.body.code \in FailureCodes
          => /\ ~outcome.settled.value.success
             /\ outcome.settled.value.code = outcome.response.body.code
             /\ outcome.settled.value.message =
                  IF outcome.response.body.message \in { Undefined, Null, "" }
                  THEN "Unknown error occurred"
                  ELSE outcome.response.body.message

C3_Witness ==
    /\ outcome.op = "verify"
    /\ Fulfilled(outcome)
    /\ outcome.response.body.code = "KEY_REVOKED"
    /\ outcome.response.body.signature = ProtocolSignature(outcome.clientNonce, "KEY_REVOKED")
    /\ outcome.settled.value.message = "Success"
    /\ ~outcome.settled.value.success

----------------------------------------------------------------------------
(* C4: the cached verification is always null or a result with success = true; it is  *)
(* written only by a verify call that completes with success, and a verify call that  *)
(* ends in any other way leaves it unchanged.                                         *)

C4_CacheOnlySuccess ==
    [][ /\ Cache = NullRef \/ Cache.success
        /\ Cache' = NullRef \/ Cache'.success
        /\ (Cache' # Cache /\ Cache' # NullRef)
           => (VerifySettles /\ Succeeded(outcome') /\ Cache' = outcome'.settled.value)
        /\ (VerifySettles /\ ~Succeeded(outcome')) => Cache' = Cache ]_vars

\* a verify call answered with a correctly signed failure code ends over a filled cache
C4_Witness ==
    /\ ReadBody(outcome)
    /\ Fulfilled(outcome)
    /\ ~outcome.settled.value.success
    /\ Cache # NullRef
    /\ Cache.success

----------------------------------------------------------------------------
(* C5: right after a verify call completes with success, isAuthenticated() is true    *)
(* and getLastVerification() returns the result verify returned; after clearCache()   *)
(* getLastVerification() returns null and isAuthenticated() is not true, until the    *)
(* next successful verify completes.                                                  *)

Authenticated(t) == isAuthenticated(t).value = JsBoolean(TRUE)

C5_CacheFollowsSuccess ==
    [][ /\ (VerifySettles /\ Succeeded(outcome'))
           => /\ Authenticated(this')
              /\ getLastVerification(this').value = outcome'.settled.value
        /\ outcome'.op = "clearCache"
           => /\ getLastVerification(this').value = NullRef
              /\ ~Authenticated(this')
        /\ (~Authenticated(this) /\ Authenticated(this'))
           => (VerifySettles /\ Succeeded(outcome')) ]_vars

\* a signed KEY_ACTIVATED has just been returned by verify and is the cached result
C5_Witness ==
    /\ outcome.op = "verify"
    /\ Succeeded(outcome)
    /\ outcome.settled.value.code = "KEY_ACTIVATED"
    /\ outcome.settled.value.signature # Null
    /\ Authenticated(this)
    /\ Cache = outcome.settled.value

----------------------------------------------------------------------------
(* C6: isAuthenticated() is true exactly when the most recently completed verify      *)
(* call resolved with success = true.                                                 *)

\* stated for the instances whose cached result, if any, came signed
C6_LastVerificationDecides ==
    (outcome.op = "verify" /\ (Cache # NullRef => Cache.signature # Null))
    => (Authenticated(this) <=> Succeeded(outcome))

----------------------------------------------------------------------------
(* C7: isAuthenticated() returns a boolean in every state: true iff a cached result   *)
(* exists and its success is true, false otherwise.                                   *)

C7_ReturnsBoolean ==
    outcome.op = "isAuthenticated"
    => outcome.settled.value = JsBoolean(Cache # NullRef /\ Cache.success)

----------------------------------------------------------------------------
(* C8: verifyOrThrow resolves only with a result whose success is true, the result    *)
(* verify produced and cached; when verify resolves with success = false it rejects   *)
(* with an error whose message holds the result's code and message; when verify       *)
(* rejects it rejects with the same error.                                            *)

C8_VerifyOrThrow ==
    outcome.op = "verifyOrThrow"
    => /\ ~outcome.settled.threw
          => /\ outcome.settled.value.success
             /\ ~outcome.awaited.threw
             /\ outcome.settled.value = outcome.awaited.value
             /\ Cache = outcome.settled.value
       /\ (~outcome.awaited.threw /\ ~outcome.awaited.value.success)
          => /\ outcome.settled.threw
             /\ Includes(outcome.settled.error.message, outcome.awaited.value.code)
             /\ Includes(outcome.settled.error.message, outcome.awaited.value.message)
             /\ outcome.settled.error.message
                  = "nexveil: " \o outcome.awaited.value.code \o " - "
                               \o outcome.awaited.value.message
       /\ outcome.awaited.threw
          => outcome.settled = outcome.awaited

\* verifyOrThrow has rejected for a result that verify resolved with
C8_Witness ==
    /\ outcome.op = "verifyOrThrow"
    /\ ~outcome.awaited.threw
    /\ outcome.awaited.value.code = "KEY_EXPIRED"
    /\ outcome.awaited.value.message = "Success"
    /\ outcome.settled.threw

----------------------------------------------------------------------------
(* C9: verify with an empty or non-text key fails with the invalid-key error before   *)
(* a fingerprint is obtained, a nonce generated or a request handed to the            *)
(* transport, and leaves the cache and the HWID state unchanged.                      *)

InvalidKey(key) == key \in { Undefined, Null, "" } \/ key = NotAString

C9_InvalidKeyFailsFirst ==
    [][ (VerifySettles /\ outcome'.response = NoResponse /\ InvalidKey(outcome'.arg))
        => /\ RejectedWith(outcome', InvalidKeyMessage)
           /\ this' = this
           /\ calls' = calls ]_vars

\* the invalid key was given to an instance that had yet to derive its fingerprint
C9_Witness ==
    /\ outcome.op = "verify"
    /\ outcome.arg = ""
    /\ RejectedWith(outcome, InvalidKeyMessage)
    /\ this.autoHWID
    /\ this.customHWID = Null
    /\ this._hwid = Null

----------------------------------------------------------------------------
(* C10: when the transport returns a status >= 500, verify rejects with the server    *)
(* error, which is neither the signature-verification error nor a result; the body    *)
(* is neither signature-checked nor classified and the cache is unchanged, even when  *)
(* the body carries a correctly signed KEY_VALID.                                     *)

C10_ServerError ==
    [][ (VerifySettles /\ outcome'.response.kind = "response" /\ outcome'.response.status >= 500)
        => /\ outcome'.settled.threw
           /\ outcome'.settled.error.message
                = "nexveil: Server error (" \o StatusText(outcome'.response.status) \o ")"
           /\ outcome'.settled.error.message # SignatureErrorMessage
           /\ Cache' = Cache ]_vars

C10_Witness ==
    /\ outcome.op = "verify"
    /\ outcome.response.kind = "response"
    /\ outcome.response.status >= 500
    /\ outcome.response.body.json = "object"
    /\ outcome.response.body.code = "KEY_VALID"
    /\ outcome.response.body.signature = ProtocolSignature(outcome.clientNonce, "KEY_VALID")
    /\ outcome.settled.threw
    /\ outcome.settled.error.message \in ServerErrorMessages
    /\ Cache = NullRef

----------------------------------------------------------------------------
(* C11: getHWID() decides as follows.  If a custom fingerprint is set it returns
   the custom fingerprint, whatever autoHWID is, and changes nothing.  Otherwise,
   if autoHWID is enabled, it returns the generated fingerprint and memoizes it
   (a derivation that fails throws the generation error and memoizes nothing).
   Otherwise it fails with the HWID-not-set error and changes nothing. *)

HwidNotSetMessage == "Nexveil: HWID not set. Enable autoHWID or provide customHWID"
GenerationFailedMessage == "Nexveil: Failed to generate HWID"

\* SHA-256 of the components joined by "||", for every probe that succeeds
Fingerprints == { sha256(Join(Components(p), "||")) : p \in { q \in Probes : ~q.osFails } }

CustomSet(t) == t.customHWID # Null

\* the step is a call of the synchronous method op
Calls(op) == outcome.op = "none" /\ outcome'.op = op

C11_GetHWIDDecision ==
    [][ Calls("getHWID") =>
          IF CustomSet(this)
          THEN /\ outcome'.settled = [threw |-> FALSE, value |-> this.customHWID]
               /\ this' = this
          ELSE IF this.autoHWID
          THEN \/ /\ ~outcome'.settled.threw
                  /\ outcome'.settled.value \in Fingerprints
                  /\ this' = [this EXCEPT !._hwid = outcome'.settled.value]
               \/ /\ outcome'.settled.threw
                  /\ Includes(outcome'.settled.error.message, GenerationFailedMessage)
                  /\ this' = this
          ELSE /\ RejectedWith(outcome', HwidNotSetMessage)
               /\ this' = this ]_vars

\* getHWID has returned the custom fingerprint on an instance with autoHWID enabled
C11_Witness ==
    /\ outcome.op = "getHWID"
    /\ this.autoHWID
    /\ CustomSet(this)
    /\ outcome.settled = [threw |-> FALSE, value |-> this.customHWID]

----------------------------------------------------------------------------
(* C12: after a successful setHWID(X) the custom fingerprint is X, and it stays X
   until a later successful setHWID; while it is X, every getHWID() returns X and
   every verify that sends a request sends X as its fingerprint, in the clienthwid
   header and in the signed text, whatever autoHWID is. *)

\* SHA256(nonce || secret1 || key || secret2 || timestamp || secret3 || hwid), from
\* the protocol's description
ProtocolClientSignature(nonce, key, timestamp, hwid) ==
    sha256(nonce \o Secret1 \o key \o Secret2 \o timestamp \o Secret3 \o hwid)

C12_SetHWIDWins ==
    [][ /\ (Calls("setHWID") /\ ~outcome'.settled.threw) => this'.customHWID = outcome'.arg
        /\ this'.customHWID # this.customHWID =>
              Calls("setHWID") /\ ~outcome'.settled.threw /\ this'.customHWID = outcome'.arg
        /\ (CustomSet(this) /\ Calls("getHWID")) =>
              outcome'.settled = [threw |-> FALSE, value |-> this.customHWID]
        /\ (CustomSet(this) /\ Calls("fetch")) =>
              /\ outcome'.request.clienthwid = this.customHWID
              /\ outcome'.request.externalsignature =
                     ProtocolClientSignature(outcome'.request.clientnonce, outcome'.arg,
                                             outcome'.request.clienttime, this.customHWID)
      ]_vars

\* a verify sends the fingerprint given to setHWID, on an instance with autoHWID enabled
C12_Witness ==
    /\ outcome.op = "fetch"
    /\ this.autoHWID
    /\ this.customHWID = "HW-2"
    /\ outcome.request.clienthwid = "HW-2"

----------------------------------------------------------------------------
(* C13: setHWID with an empty or non-text value fails with the invalid-HWID error
   and leaves the custom fingerprint, the memoized fingerprint and the cache
   unchanged, so that getHWID() gives afterwards what it gave before. *)

InvalidHwidMessage == "Nexveil: HWID must be a non-empty string"

InvalidHwid(hwid) == hwid = "" \/ ~TypeofString(hwid)

C13_InvalidSetHWID ==
    [][ (Calls("setHWID") /\ InvalidHwid(outcome'.arg)) =>
          /\ RejectedWith(outcome', InvalidHwidMessage)
          /\ this'.customHWID = this.customHWID
          /\ this'._hwid = this._hwid
          /\ this'._lastVerification = this._lastVerification
          /\ \A probe \in Probes :
                Settled(getHWID(this', probe)) = Settled(getHWID(this, probe)) ]_vars

\* setHWID('') has failed on an instance whose fingerprint was set by setHWID before
\* and whose cache holds a result
C13_Witness ==
    /\ outcome.op = "setHWID"
    /\ outcome.arg = ""
    /\ RejectedWith(outcome, InvalidHwidMessage)
    /\ this.customHWID = "HW-2"
    /\ Cache # NullRef

----------------------------------------------------------------------------
(* C14: the fingerprint is memoized.  Once a fingerprint is memoized,
   generateHWID() returns it whatever the probes would answer now, a failing probe
   included, and changes nothing; every generateHWID() or getHWID() that returns on
   an instance without custom fingerprint returns the memoized value, deriving it
   only when none is memoized; and only setHWID replaces a memoized value. *)

Memoized(t) == t._hwid # Null

C14_Memoization ==
    [][ /\ Memoized(this) =>
              \A probe \in Probes : generateHWID(this, probe) = Returned(this._hwid, this)
        /\ ( /\ Calls("generateHWID") \/ Calls("getHWID")
             /\ ~outcome'.settled.threw
             /\ ~CustomSet(this) ) =>
              /\ outcome'.settled.value = this'._hwid
              /\ Memoized(this) => this' = this
        /\ (Memoized(this) /\ this'._hwid # this._hwid) => Calls("setHWID")
      ]_vars

\* generateHWID() has returned the fingerprint that an earlier verify had derived
C14_Witness ==
    /\ outcome.op = "generateHWID"
    /\ ~CustomSet(this)
    /\ Cache # NullRef
    /\ outcome.settled = [threw |-> FALSE, value |-> this._hwid]

----------------------------------------------------------------------------
(* C15: generateHWID() returns, in every state, a fingerprint based on system
   characteristics: the SHA-256 of the collected components joined by "||". *)

C15_GeneratedFromSystem ==
    outcome.op = "generateHWID" /\ ~outcome.settled.threw
        => outcome.settled.value \in Fingerprints

----------------------------------------------------------------------------
(* Vocabulary of the properties of construction *)

\* new NexveilAuth(config) has just been evaluated
Constructed(o) == o.op = "new" /\ ~o.settled.threw
ConstructionFailed(o) == o.op = "new" /\ o.settled.threw

\* a field that is missing or empty
Absent(v) == v \in { Undefined, "" }

AllPresent(config) ==
    /\ config # NoConfig
    /\ ~Absent(config.appName)
    /\ ~Absent(config.secret1)
    /\ ~Absent(config.secret2)
    /\ ~Absent(config.secret3)

\* the first required field that is missing or empty, in the order appName, secret1,
\* secret2, secret3
FirstAbsent(config) ==
    IF Absent(config.appName) THEN "appName"
    ELSE IF Absent(config.secret1) THEN "secret1"
    ELSE IF Absent(config.secret2) THEN "secret2"
    ELSE "secret3"

(* C16: construction fails, and no instance comes into existence, when the
   configuration is absent or one of appName, secret1, secret2, secret3 is missing
   or empty; the error names the first such field in that order. *)

WrongLength(secret) == Len(secret) # 64

FirstWrongLength(config) ==
    IF WrongLength(config.secret1) THEN "secret1"
    ELSE IF WrongLength(config.secret2) THEN "secret2"
    ELSE "secret3"

C18_Defaults ==
    Constructed(outcome) =>
        LET config == outcome.arg
        IN  /\ this = outcome.settled.value
            /\ this.autoHWID = (config.autoHWID # JsFalse)
            /\ config.autoHWID \in { Undefined, Null, JsTrue } => this.autoHWID
            /\ this.strictSSL = (config.strictSSL # JsFalse)
            /\ config.strictSSL \in { Undefined, JsTrue } => this.strictSSL
            /\ this.apiUrl = IF Absent(config.apiUrl) THEN "https://api.nexveil.net"
                              ELSE config.apiUrl
            /\ this.customHWID = IF Absent(config.customHWID) THEN Null
                                  ELSE config.customHWID
            /\ this._hwid = Null
            /\ this._lastVerification = NullRef
            /\ this.appName = config.appName
            /\ <<this.secret1, this.secret2, this.secret3>>
                  = <<config.secret1, config.secret2, config.secret3>>

\* an instance has been constructed from a configuration with autoHWID: null,
\* strictSSL: false, apiUrl: '' and no customHWID
C18_Witness ==
    /\ Constructed(outcome)
    /\ outcome.arg.autoHWID = Null /\ this.autoHWID
    /\ outcome.arg.strictSSL = JsFalse /\ ~this.strictSSL
    /\ outcome.arg.apiUrl = "" /\ this.apiUrl = "https://api.nexveil.net"
    /\ outcome.arg.customHWID = Undefined /\ this.customHWID = Null

----------------------------------------------------------------------------
(* C19: the client signature sent by verify is SHA256 of nonce, secret1, key,
   secret2, timestamp, secret3 and hwid concatenated in this order, the nonce,
   timestamp and hwid being those of the request's headers; it is a function of
   these seven values and of nothing else of the instance. *)

C19_ClientSignature ==
    outcome.op = "fetch" =>
        LET request == outcome.request
        IN  /\ request.externalsignature =
                  ProtocolClientSignature(request.clientnonce, outcome.arg,
                                          request.clienttime, request.clienthwid)
            /\ \A key \in { "ABC", "A&B" }, hwid \in { "HW-1", "HW-2" } :
                  ClientSignature(this, key, request.clientnonce, request.clienttime, hwid)
                      = ProtocolClientSignature(request.clientnonce, key,
                                                request.clienttime, hwid)

\* a verify of the key 'A&B' has sent a request signed over a generated fingerprint,
\* on an instance whose cache holds a result
C19_Witness ==
    /\ outcome.op = "fetch"
    /\ outcome.request.clienthwid \in Fingerprints
    /\ Cache # NullRef
    /\ outcome.request.externalsignature =
          sha256(outcome.request.clientnonce \o Secret1 \o "A&B" \o Secret2
                 \o outcome.request.clienttime \o Secret3 \o outcome.request.clienthwid)

----------------------------------------------------------------------------
(* C20: with several verify calls in flight, a call that completes with success
   makes its own result the cached one, whatever the cache held and whichever call
   was issued first; a call that completes without success leaves the cache as it
   was.  So after two successes the cache holds the result of the call that
   completed last. *)

C20_LastCompletionWins ==
    [][ (VerifySettles /\ outcome'.call # 0) =>
          IF Succeeded(outcome')
          THEN Cache' = outcome'.settled.value /\ Cache'.ref = outcome'.call
          ELSE Cache' = Cache ]_vars

\* the call issued first has completed last, after the call issued second had
\* completed with success, and the cache holds the result of the call issued first
C20_Witness ==
    /\ outcome.op = "verify"
    /\ outcome.call = 1
    /\ Succeeded(outcome)
    /\ calls[2].pc = "done"
    /\ ~calls[2].settled.threw
    /\ calls[2].settled.value.success
    /\ Cache = outcome.settled.value
    /\ Cache # calls[2].settled.value

----------------------------------------------------------------------------
(* C21: a verify call checks the response's signature against its own nonce.  A
   response signed over the nonce of another request (over that nonce, secret3 and
   the code) is rejected with the signature-verification error when it answers a
   call with a different nonce, and leaves the cache as it was; a response signed
   over the call's own nonce is not rejected for its signature, whatever other
   calls are in flight. *)

SignedFor(o, nonce) ==
    o.response.body.signature = ProtocolSignature(nonce, o.response.body.code)

C21_NonceBinding ==
    [][ (VerifySettles /\ ReadBody(outcome')) =>
          /\ (\E m \in Nonces \ { outcome'.clientNonce } : SignedFor(outcome', m)) =>
                RejectedWith(outcome', SignatureErrorMessage) /\ Cache' = Cache
          /\ SignedFor(outcome', outcome'.clientNonce) => Fulfilled(outcome') ]_vars

\* a call has rejected the KEY_VALID answer that is valid for another call, which is
\* still in flight
C21_Witness ==
    /\ outcome.op = "verify"
    /\ RejectedWith(outcome, SignatureErrorMessage)
    /\ outcome.response.body.code = "KEY_VALID"
    /\ \E d \in DOMAIN calls :
         /\ calls[d].pc = "fetch"
         /\ calls[d].clientNonce # outcome.clientNonce
         /\ SignedFor(outcome, calls[d].clientNonce)

----------------------------------------------------------------------------
(* C22: a response that carries no signature is not signature-checked: verify
   resolves with the result classified from the code alone, and an unsigned
   KEY_VALID or KEY_ACTIVATED gives success = true and becomes the cached result. *)

Unsigned(o) == ReadBody(o) /\ o.response.body.signature \in { Undefined, "" }

----------------------------------------------------------------------------
(* C23: when autoHWID is disabled and no custom fingerprint is set, verify of a
   valid key fails with the same HWID-not-set error that getHWID() raises. *)

----------------------------------------------------------------------------
(* C24, as stated: a response body without code makes verify reject. *)

NoCode(o) == ReadBody(o) /\ o.response.body.code = Undefined

C24_AsStated ==
    (NoCode(outcome) /\ SignedFor(outcome, outcome.clientNonce)) => outcome.settled.threw

(* C24, amended: a response body without code does not make verify reject unless
   its signature is wrong.  Unsigned, or signed over the text 'undefined' in place
   of the code, it makes verify resolve with a result of code 'UNKNOWN_ERROR' that
   is neither valid nor successful and is not cached; with another signature it is
   rejected with the signature-verification error. *)

C24_MissingCode ==
    NoCode(outcome) =>
        IF Unsigned(outcome) \/ SignedFor(outcome, outcome.clientNonce)
        THEN /\ Fulfilled(outcome)
             /\ outcome.settled.value.code = "UNKNOWN_ERROR"
             /\ ~outcome.settled.value.success
             /\ ~outcome.settled.value.isValid
             /\ Cache # outcome.settled.value
        ELSE RejectedWith(outcome, SignatureErrorMessage)

\* verify has resolved with code UNKNOWN_ERROR on a body without code, signed over
\* the call's nonce
C24_Witness ==
    /\ NoCode(outcome)
    /\ SignedFor(outcome, outcome.clientNonce)
    /\ Fulfilled(outcome)
    /\ outcome.settled.value.code = "UNKNOWN_ERROR"

----------------------------------------------------------------------------
(* C25, as stated: verify(key) with an invalid key throws at the call site rather
   than returning a promise that rejects. *)

ThrownAtCallSite(o) == o.settled.threw /\ ~o.promise
RejectedPromise(o) == o.settled.threw /\ o.promise

C25_AsStated ==
    (outcome.op = "verify" /\ InvalidKey(outcome.arg)) => ThrownAtCallSite(outcome)

(* C25, amended: setHWID with invalid input and construction without configuration
   throw at the call site; verify(key) with an invalid key returns a promise that
   rejects with the invalid-key error, no request having been sent; transport
   failures, status >= 500 and signature mismatch, like every other failure of
   verify and verifyOrThrow, are rejections of the returned promise. *)

C25_ThrowOrReject ==
    /\ (outcome.op = "setHWID" /\ InvalidHwid(outcome.arg)) => ThrownAtCallSite(outcome)
    /\ ThrownAtCallSite(Outcome("new", NoConfig, 0, Null, NoResponse,
                                 Settled(NewNexveilAuth(NoConfig))))
    /\ (outcome.op = "verify" /\ InvalidKey(outcome.arg)) =>
          /\ RejectedPromise(outcome)
          /\ RejectedWith(outcome, InvalidKeyMessage)
          /\ outcome.call = 0
    /\ (outcome.op \in { "verify", "verifyOrThrow" } /\ outcome.settled.threw) =>
          RejectedPromise(outcome)

\* verify('') has returned a promise rejected with the invalid-key error
C25_Witness ==
    /\ outcome.op = "verify"
    /\ outcome.arg = ""
    /\ RejectedPromise(outcome)
    /\ RejectedWith(outcome, InvalidKeyMessage)

----------------------------------------------------------------------------
(* C26: when the platform-specific identifier lookup fails, generateHWID() still
   returns and memoizes the fingerprint of the remaining components in the same
   order, and raises no error; only a failure outside that lookup makes
   generateHWID() fail, and then nothing is memoized. *)

FullFingerprint ==
    "sha256(cpu-x||host||linux||x64||02:00:00:00:00:01||0a:00:00:00:00:02||machine-id-1)"

DegradedFingerprint ==
    "sha256(cpu-x||host||linux||x64||02:00:00:00:00:01||0a:00:00:00:00:02)"

C26_DegradedFingerprint ==
    /\ (~Memoized(this) /\ ~CustomSet(this)) =>
          \A probe \in Probes :
              LET r == generateHWID(this, probe)
              IN  IF probe.osFails
                  THEN /\ r.threw
                       /\ Includes(r.error.message, GenerationFailedMessage)
                       /\ r.this = this
                  ELSE IF probe.platformId = PlatformIdFails
                  THEN r = Returned(DegradedFingerprint,
                                    [this EXCEPT !._hwid = DegradedFingerprint])
                  ELSE r = Returned(FullFingerprint, [this EXCEPT !._hwid = FullFingerprint])
    /\ (outcome.op = "generateHWID" /\ ~CustomSet(this)) =>
          IF outcome.settled.threw
          THEN /\ Includes(outcome.settled.error.message, GenerationFailedMessage)
               /\ ~Memoized(this)
          ELSE /\ outcome.settled.value \in { FullFingerprint, DegradedFingerprint }
               /\ this._hwid = outcome.settled.value

\* generateHWID() has returned and memoized the fingerprint without the platform
\* identifier
C26_Witness ==
    /\ outcome.op = "generateHWID"
    /\ ~outcome.settled.threw
    /\ outcome.settled.value = DegradedFingerprint
    /\ this._hwid = DegradedFingerprint

----------------------------------------------------------------------------
(* C27: clearCache() empties the cache and leaves every verify call in flight as it
   is, in flight with its key and nonce; a verify call issued before a clearCache()
   that completes with success after it populates the cache with its result, and
   isAuthenticated() is true again. *)

InFlight(c) == calls[c].pc = "fetch"

C27_ClearDoesNotCancel ==
    [][ /\ Calls("clearCache") =>
              /\ Cache' = NullRef
              /\ ~Authenticated(this')
              /\ \A c \in DOMAIN calls :
                     InFlight(c) =>
                        /\ calls'[c].pc = "fetch"
                        /\ calls'[c].key = calls[c].key
                        /\ calls'[c].clientNonce = calls[c].clientNonce
        /\ ( /\ VerifySettles
             /\ outcome'.call # 0
             /\ calls[outcome'.call].cleared
             /\ Succeeded(outcome') ) =>
              /\ Cache' = outcome'.settled.value
              /\ Authenticated(this') ]_vars

\* a verify issued before clearCache() has completed with success after it, no other
\* verify having been issued since, and the instance is authenticated by its result
C27_Witness ==
    /\ outcome.op = "verify"
    /\ outcome.call # 0
    /\ calls[outcome.call].pc = "done"
    /\ calls[outcome.call].cleared
    /\ \A d \in DOMAIN calls : d # outcome.call => calls[d] = Idle
    /\ Succeeded(outcome)
    /\ Cache = outcome.settled.value
    /\ Authenticated(this)

----------------------------------------------------------------------------
(* C28: the request handed to the transport carries in its clientnonce, clienttime
   and clienthwid headers and in its key parameter the nonce, timestamp, fingerprint
   and key over which its externalsignature was computed, the fingerprint being the
   one in force when the call was issued; while the call is in flight no step, a
   setHWID() included, changes the request or the nonce, and the response is checked
   against the nonce that was sent. *)

\* the key as it stands in the query string
KeyParameter(key) == IF key = "A&B" THEN "A%26B" ELSE key

Consistent(request, key) ==
    /\ request.externalsignature =
          ProtocolClientSignature(request.clientnonce, key, request.clienttime,
                                  request.clienthwid)
    /\ Includes(request.url, "?key=" \o KeyParameter(key) \o "&app_name=")

C28_RequestConsistent ==
    [][ /\ Calls("fetch") =>
              /\ Consistent(outcome'.request, outcome'.arg)
              /\ calls'[outcome'.call].request = outcome'.request
              /\ calls'[outcome'.call].key = outcome'.arg
              /\ calls'[outcome'.call].clientNonce = outcome'.request.clientnonce
              /\ outcome'.request.clienthwid =
                    IF CustomSet(this) THEN this.customHWID
                    ELSE IF Memoized(this) THEN this._hwid
                    ELSE this'._hwid
              /\ outcome'.request.clienthwid \in Fingerprints \cup { "HW-1", "HW-2" }
        /\ \A c \in DOMAIN calls :
              (InFlight(c) /\ calls'[c].pc = "fetch") =>
                 /\ calls'[c].request = calls[c].request
                 /\ calls'[c].clientNonce = calls[c].clientNonce
                 /\ calls'[c].key = calls[c].key
        /\ (VerifySettles /\ outcome'.call # 0 /\ ReadBody(outcome')) =>
              /\ outcome'.arg = calls[outcome'.call].key
              /\ outcome'.response.body.signature =
                     ProtocolSignature(calls[outcome'.call].request.clientnonce,
                                       outcome'.response.body.code)
                  => Fulfilled(outcome') ]_vars

\* setHWID('HW-2') has been performed while a request carrying, and signed over,
\* 'HW-1' is in flight
C28_Witness ==
    /\ outcome.op = "setHWID"
    /\ ~outcome.settled.threw
    /\ this.customHWID = "HW-2"
    /\ \E c \in DOMAIN calls :
          /\ InFlight(c)
          /\ calls[c].request.clienthwid = "HW-1"
          /\ Consistent(calls[c].request, calls[c].key)

----------------------------------------------------------------------------
(* C29: setHWID(), getHWID() and generateHWID() never change the cached
   verification, so isAuthenticated() stays true after the fingerprint is replaced;
   clearCache() and verify calls, issued or completing, never change the custom
   fingerprint; the only HWID state a verify call changes is the memoized
   fingerprint, from none to the generated one. *)

HwidCall == Calls("setHWID") \/ Calls("getHWID") \/ Calls("generateHWID")
VerifyStep == Calls("fetch") \/ VerifySettles

C29_CacheAndHwidIndependent ==
    [][ /\ HwidCall =>
              /\ Cache' = Cache
              /\ Authenticated(this') = Authenticated(this)
        /\ Calls("clearCache") =>
              /\ this'.customHWID = this.customHWID
              /\ this'._hwid = this._hwid
        /\ VerifyStep => this'.customHWID = this.customHWID
        /\ (VerifyStep /\ this'._hwid # this._hwid) =>
              /\ ~Memoized(this)
              /\ ~CustomSet(this)
              /\ this'._hwid \in Fingerprints ]_vars

\* setHWID('HW-2') has replaced the fingerprint of an instance whose cache holds a
\* successful verification, and the instance is still authenticated
C29_Witness ==
    /\ outcome.op = "setHWID"
    /\ outcome.arg = "HW-2"
    /\ ~outcome.settled.threw
    /\ this.customHWID = "HW-2"
    /\ Authenticated(this)
    /\ Cache # NullRef

====
